---- MODULE Spec2Model ----
(***************************************************************************)
(* A model of the trigger command lifecycle (cmds/trigger.cpp), of the     *)
(* win32 directory watcher (watcher/win32.cpp) and of the VCS ignore       *)
(* configuration (root/vcs.cpp) of watchman.                               *)
(*                                                                         *)
(* Threads are modelled with one program counter each; one action is one   *)
(* step of a thread between two points where another thread can observe    *)
(* or change shared state.                                                 *)
(***************************************************************************)
EXTENDS Integers, Sequences, FiniteSets, TLC

\* ------------------------------------------------------------------ bounds
MaxObj == 2            \* watchman_trigger_command objects alive at a time
MaxQueue == 1          \* unread batches held by one subscription
MaxTicks == 2          \* no trigger request is taken once ticks is this high
MaxReported == 3       \* change records the directory handle reports in all
MaxBatch == 2          \* change records in one completed read
MaxName == 3           \* characters in a redirection given to parse_redirection
MaxIgnores == 2        \* elements of a configured ignore_vcs array

Objs == 1 .. MaxObj
NoObj == 0             \* a null pointer
Absent == -1           \* no entry under the key
Names == {"a", "b"}

\* ------------------------------------------------- trigger definitions
\* A JSON trigger definition.  Every member is present in the record; the
\* *_t member says how the JSON document has it ("absent", "str", "arr",
\* "other"), so that json_equal is equality of the records.
BaseTrig(n, cmd) ==
  [name_t |-> "str", name |-> n, expr |-> "good",
   cmd_t |-> "arr", cmd |-> cmd,
   append_files |-> FALSE,
   stdin_t |-> "absent", stdin |-> "", stdin_fields_ok |-> TRUE,
   max_files_stdin |-> 0,
   stdout_t |-> "absent", stdout |-> <<>>,
   stderr_t |-> "absent", stderr |-> <<>>]

\* parse_field_list is called with the "stdin" array.
ParseFieldList(trig) == trig.stdin_fields_ok

\* w_query_parse on {"expression": ..., "relative_root": ...}
QueryParse(trig) == trig.expr = "good"

O_BASE == {"O_CREAT", "O_CLOEXEC", "O_WRONLY"}

\* A parse_redirection that truncates where the build cannot append.
ParseRedirection_Downgrade(present, name, flags, win32) ==
  IF ~present
    THEN [ok |-> TRUE, name |-> name, flags |-> flags]
  ELSE IF Len(name) = 0 \/ name[1] # ">"
    THEN [ok |-> FALSE, name |-> name, flags |-> flags]
  ELSE IF Len(name) >= 2 /\ name[2] = ">"
    THEN IF win32
           THEN [ok |-> TRUE, name |-> SubSeq(name, 3, Len(name)),
                 flags |-> O_BASE \cup {"O_TRUNC"}]
           ELSE [ok |-> TRUE, name |-> SubSeq(name, 3, Len(name)),
                 flags |-> O_BASE \cup {"O_APPEND"}]
  ELSE [ok |-> TRUE, name |-> SubSeq(name, 2, Len(name)),
        flags |-> O_BASE \cup {"O_TRUNC"}]

\* parse_redirection(name_p, flags, label, errmsg): present = (*name_p != NULL).
\* The result has the return value, and name and flags as the call leaves them.
ParseRedirection(present, name, flags, win32) ==
  IF ~present
    THEN [ok |-> TRUE, name |-> name, flags |-> flags]
  ELSE IF Len(name) = 0 \/ name[1] # ">"
    THEN [ok |-> FALSE, name |-> name, flags |-> flags]
  ELSE IF Len(name) >= 2 /\ name[2] = ">"
    THEN IF win32
           THEN [ok |-> FALSE, name |-> name, flags |-> O_BASE]
           ELSE [ok |-> TRUE, name |-> SubSeq(name, 3, Len(name)),
                 flags |-> O_BASE \cup {"O_APPEND"}]
  ELSE [ok |-> TRUE, name |-> SubSeq(name, 2, Len(name)),
        flags |-> O_BASE \cup {"O_TRUNC"}]

\* The constructor without its check of max_files_stdin.
ConstructErr_NoMaxFiles(trig, win32) ==
  IF ~QueryParse(trig) THEN "query parse failed"
  ELSE IF trig.name_t # "str" THEN "invalid or missing name"
  ELSE IF trig.cmd_t # "arr" \/ Len(trig.cmd) = 0 THEN "invalid command array"
  ELSE IF trig.stdin_t = "arr" /\ ~ParseFieldList(trig) THEN "invalid field list"
  ELSE IF trig.stdin_t = "str" /\ trig.stdin \notin {"/dev/null", "NAME_PER_LINE"}
    THEN "invalid stdin value"
  ELSE IF trig.stdin_t = "other" THEN "invalid value for stdin"
  ELSE IF ~ParseRedirection(trig.stdout_t = "str", trig.stdout, {}, win32).ok
    THEN "stdout: bad redirection"
  ELSE IF ~ParseRedirection(trig.stderr_t = "str", trig.stderr, {}, win32).ok
    THEN "stderr: bad redirection"
  ELSE ""

\* The constructor watchman_trigger_command(root, trig, &errmsg): the error
\* message it leaves in errmsg, "" when the definition is accepted.
ConstructErr(trig, win32) ==
  IF ~QueryParse(trig) THEN "query parse failed"
  ELSE IF trig.name_t # "str" THEN "invalid or missing name"
  ELSE IF trig.cmd_t # "arr" \/ Len(trig.cmd) = 0 THEN "invalid command array"
  ELSE IF trig.stdin_t = "arr" /\ ~ParseFieldList(trig) THEN "invalid field list"
  ELSE IF trig.stdin_t = "str" /\ trig.stdin \notin {"/dev/null", "NAME_PER_LINE"}
    THEN "invalid stdin value"
  ELSE IF trig.stdin_t = "other" THEN "invalid value for stdin"
  ELSE IF trig.max_files_stdin < 0 THEN "max_files_stdin must be >= 0"
  ELSE IF ~ParseRedirection(trig.stdout_t = "str", trig.stdout, {}, win32).ok
    THEN "stdout: bad redirection"
  ELSE IF ~ParseRedirection(trig.stderr_t = "str", trig.stderr, {}, win32).ok
    THEN "stderr: bad redirection"
  ELSE ""

\* The empty definition of a slot that holds no object.
NoTrig == BaseTrig("", <<>>)

\* build_legacy_trigger(root, client, args): args = [cmd, root, name, rule...,
\* command...].  lrule_ok: w_query_parse_legacy accepts the rule; lcmd: the
\* elements of args from next_arg on, each a string or not.
LegacyErr(req) ==
  IF ~req.lrule_ok THEN "invalid rule spec"
  ELSE IF Len(req.lcmd) = 0 THEN "no command was specified"
  ELSE IF \E i \in 1 .. Len(req.lcmd) : ~req.lcmd[i].isstr
    THEN "expected argument to be a string"
  ELSE ""

BuildLegacyTrigger(req) ==
  [BaseTrig(req.lname, [i \in 1 .. Len(req.lcmd) |-> req.lcmd[i].s])
     EXCEPT !.append_files = TRUE, !.stdin_t = "arr"]

\* The definition cmd_trigger hands to the constructor.
TrigOf(req) == IF req.form = "legacy" THEN BuildLegacyTrigger(req) ELSE req.trig

\* cmd_trigger up to the constructor: the error sent, "" when the request
\* gets as far as the trigger table.  ctor: the constructor ran.
TriggerReject(req, win32) ==
  IF ~req.root_ok THEN [err |-> "unable to resolve root", ctor |-> FALSE]
  ELSE IF req.nargs < 3 THEN [err |-> "not enough arguments", ctor |-> FALSE]
  ELSE IF req.form = "legacy" /\ LegacyErr(req) # ""
    THEN [err |-> LegacyErr(req), ctor |-> FALSE]
  ELSE [err |-> ConstructErr(TrigOf(req), win32), ctor |-> TRUE]

\* cmd_trigger_delete up to the trigger table.
DeleteReject(req) ==
  IF ~req.root_ok THEN "unable to resolve root"
  ELSE IF req.nargs # 3 THEN "wrong number of arguments"
  ELSE IF req.name_t # "str" THEN "expected 2nd parameter to be trigger name"
  ELSE ""

\* ------------------------------------------------------------- requests
\* A request as a handler receives it: the members a handler does not read
\* are left at their defaults.
NoReq ==
  [op |-> "none", root_ok |-> TRUE, nargs |-> 0, form |-> "object",
   trig |-> NoTrig, lname |-> "", lrule_ok |-> TRUE, lcmd |-> <<>>,
   name_t |-> "absent", name |-> ""]

ObjReq(t) == [NoReq EXCEPT !.op = "trigger", !.nargs = 3, !.trig = t]

LegReq(n, ok, cmd) ==
  [NoReq EXCEPT !.op = "trigger", !.nargs = 4 + Len(cmd), !.form = "legacy",
                !.lname = n, !.lrule_ok = ok, !.lcmd = cmd]

DelReq(n) == [NoReq EXCEPT !.op = "del", !.nargs = 3, !.name_t = "str", !.name = n]

AppendOut == [BaseTrig("a", <<"x">>) EXCEPT !.stdout_t = "str", !.stdout = <<">", ">", "o">>]

GoodTrigs ==
  {BaseTrig("a", <<"x">>), BaseTrig("a", <<"y">>),
   [BaseTrig("a", <<"x">>) EXCEPT !.stderr_t = "str", !.stderr = <<">", "e">>]}

BadTrigs ==
  LET b == BaseTrig("a", <<"z">>) IN
  { [b EXCEPT !.expr = "bad"],
    [b EXCEPT !.name_t = "absent", !.name = ""],
    [b EXCEPT !.name_t = "other", !.name = ""],
    [b EXCEPT !.cmd_t = "absent", !.cmd = <<>>],
    [b EXCEPT !.cmd_t = "other", !.cmd = <<>>],
    [b EXCEPT !.cmd = <<>>],
    [b EXCEPT !.stdin_t = "arr", !.stdin_fields_ok = FALSE],
    [b EXCEPT !.stdin_t = "str", !.stdin = "bogus"],
    [b EXCEPT !.stdin_t = "other"],
    [b EXCEPT !.max_files_stdin = -1],
    [b EXCEPT !.stdout_t = "str", !.stdout = <<"o">>],
    [b EXCEPT !.stderr_t = "str", !.stderr = <<"e", ">">>],
    [b EXCEPT !.stderr_t = "str", !.stderr = <<>>] }

StrArg(x) == [isstr |-> TRUE, s |-> x]
GoodLegacy == {LegReq("b", TRUE, <<StrArg("x")>>)}
BadLegacy ==
  {LegReq("b", FALSE, <<StrArg("x")>>),
   LegReq("b", TRUE, <<>>),
   LegReq("b", TRUE, <<StrArg("x"), [isstr |-> FALSE, s |-> ""]>>)}
BadArgs ==
  {[ObjReq(BaseTrig("a", <<"x">>)) EXCEPT !.root_ok = FALSE],
   [ObjReq(BaseTrig("a", <<"x">>)) EXCEPT !.nargs = 2]}

DeleteRequests ==
  {DelReq(n) : n \in Names}
    \cup {[DelReq("a") EXCEPT !.root_ok = FALSE],
          [DelReq("") EXCEPT !.nargs = 2, !.name_t = "absent"],
          [DelReq("") EXCEPT !.name_t = "other"]}

\* ---------------------------------------------------------------- state
VARIABLES
  win32,        \* the build: _WIN32 defined or not
  stopping,     \* w_is_stopping()
  triggers,     \* root->triggers: trigger name -> object, NoObj or Absent
  triggersLock, \* the client holding triggers.wlock(), 0 when free
  ticks,        \* root->inner.ticks
  fatal,        \* the destructor logged FATAL
  obj,          \* the watchman_trigger_command objects
  notify,       \* subscribers whose notifier the publisher has still to call
  cl            \* the control clients: position in the handler and its locals

tvars == <<win32, stopping, triggers, triggersLock, ticks, fatal, obj,
           notify, cl>>

\* The state of the win32 watcher of a root.
VARIABLES
  cancelled,      \* root->inner.cancelled
  failure_reason, \* root->failure_reason is set
  recrawl,        \* root->scheduleRecrawl was called
  mutex,          \* holder of the changedItems lock between steps
  changedItems,   \* WinWatcher::changedItems
  pingEvent,      \* WinWatcher::ping
  olapEvent,      \* WinWatcher::olapEvent
  outstanding,    \* reads issued on dir_handle and not yet completed
  olapResult,     \* the state of olap: pending, or how its read completed
  buf,            \* the records in buf
  size,           \* readChangesThread's size
  initiate_read,  \* readChangesThread's initiate_read
  items,          \* readChangesThread's items
  rpc,            \* position of readChangesThread
  firstRead,      \* the outcome of the read at line 125
  spc,            \* position of start()
  startWoken,     \* cond was notified while start() waits
  startResult,    \* what start() returned
  cpc,            \* position of consumeNotify
  cItems,         \* consumeNotify's items
  added,          \* the paths passed to coll->add, in order
  reported        \* the change records the reads completed with, in order

wvars == <<cancelled, failure_reason, recrawl, mutex, changedItems, pingEvent,
           olapEvent, outstanding, olapResult, buf, size, initiate_read, items,
           rpc, firstRead, spc, startWoken, startResult, cpc, cItems, added,
           reported>>

\* A call of parse_redirection: its arguments (name0, flags0) and what it
\* leaves in *name_p and *flags.
VARIABLES redir

\* A call of applyIgnoreVCSConfiguration on a root: the root's configuration,
\* ignore set and cookie directory, the directories that exist, and the
\* locals of the call.
VARIABLES vcs

fvars == <<redir, vcs>>

\* A slot of the object pool that holds no object.
FreeObj ==
  [alive |-> FALSE, definition |-> NoTrig, triggername |-> "",
   stopTrigger |-> FALSE, joinable |-> FALSE, pc |-> "none", ping |-> FALSE,
   subscribed |-> FALSE, sub |-> <<>>, attempts |-> 0,
   current_proc |-> 0]

\* The object the constructor leaves for an accepted definition.
NewObj(trig) ==
  [FreeObj EXCEPT !.alive = TRUE, !.definition = trig, !.triggername = trig.name]

\* A client between two requests, with the response to the last one.  The
\* members did_* record what the handler did while serving the request.
IdleClient ==
  [pc |-> "idle", op |-> "none", req |-> NoReq, name |-> "", cmd |-> NoObj,
   old |-> NoObj,
   need_save |-> FALSE, res |-> FALSE,
   resp |-> "none", disposition |-> "", deleted |-> FALSE,
   did_stop |-> NoObj, did_start |-> NoObj, did_tick |-> FALSE, did_save |-> FALSE]

\* The thread of an object is running: started and not yet out of run().
Running(o) == obj[o].pc \notin {"none", "exited"}

\* ~watchman_trigger_command on the object r: the FATAL branch is taken.
DtorFatal(r) == r.joinable /\ ~r.stopTrigger

\* The lowest free slot (the allocator's choice is of no consequence).
Unused(o) == ~obj[o].alive /\ \A p \in Objs : p < o => obj[p].alive

\* The state after the root is set up, with the control connections cs, for
\* the builds (values of _WIN32) in builds.
InitTrig(cs, builds) ==
  /\ win32 \in builds
  /\ stopping = FALSE
  /\ triggers = [n \in Names |-> Absent]
  /\ triggersLock = 0
  /\ ticks = 0
  /\ fatal = FALSE
  /\ obj = [o \in Objs |-> FreeObj]
  /\ notify = {}
  /\ cl = [c \in cs |-> IdleClient]

\* ------------------------------------------------- the control handlers
\* cmd_trigger, from its entry to the constructor's verdict (lines 365-399).
TriggerBegin(c, req) ==
  /\ cl[c].pc = "idle"
  /\ ticks < MaxTicks
  /\ LET rej == TriggerReject(req, win32)
         new == NewObj(TrigOf(req))
     IN IF rej.err # ""
          THEN /\ cl' = [cl EXCEPT ![c] =
                      [IdleClient EXCEPT !.pc = "done", !.op = "trigger", !.req = req,
                                         !.resp = "error"]]
               /\ fatal' = (fatal \/ (rej.ctor /\ DtorFatal(new)))
               /\ UNCHANGED obj
          ELSE /\ \E o \in Objs :
                    /\ Unused(o)
                    /\ obj' = [obj EXCEPT ![o] = new]
                    /\ cl' = [cl EXCEPT ![c] =
                           [IdleClient EXCEPT !.pc = "t_lock", !.op = "trigger",
                                              !.req = req, !.cmd = o, !.name = new.triggername,
                                              !.need_save = TRUE]]
               /\ UNCHANGED fatal
  /\ UNCHANGED <<wvars, fvars, win32, stopping, triggers, triggersLock, ticks, notify>>

\* cmd_trigger replacing a trigger whatever its definition is.
TriggerLocked_NoCompare(c) ==
  /\ cl[c].pc = "t_lock"
  /\ triggersLock = 0
  /\ LET n == cl[c].name
         old == IF triggers[n] = Absent THEN NoObj ELSE triggers[n]
     IN /\ triggers' = [triggers EXCEPT ![n] = old]
        /\ triggersLock' = c
        /\ cl' = [cl EXCEPT ![c].disposition =
                               IF old # NoObj THEN "replaced" ELSE "created",
                            ![c].old = old,
                            ![c].pc = IF old # NoObj THEN "stop_flag" ELSE "t_start"]
  /\ UNCHANGED <<wvars, fvars, win32, stopping, ticks, fatal, obj, notify>>

\* cmd_trigger starting the new command without stopping the old one.
TriggerLocked_NoStop(c) ==
  /\ cl[c].pc = "t_lock"
  /\ triggersLock = 0
  /\ LET n == cl[c].name
         old == IF triggers[n] = Absent THEN NoObj ELSE triggers[n]
     IN IF old # NoObj /\ obj[cl[c].cmd].definition = obj[old].definition
          THEN /\ cl' = [cl EXCEPT ![c].disposition = "already_defined",
                                   ![c].need_save = FALSE,
                                   ![c].pc = "t_finish"]
               /\ UNCHANGED <<triggers, triggersLock>>
          ELSE /\ triggers' = [triggers EXCEPT ![n] = old]
               /\ triggersLock' = c
               /\ cl' = [cl EXCEPT ![c].disposition =
                                      IF old # NoObj THEN "replaced" ELSE "created",
                                   ![c].old = old,
                                   ![c].pc = "t_start"]
  /\ UNCHANGED <<wvars, fvars, win32, stopping, ticks, fatal, obj, notify>>

\* cmd_trigger takes the write lock, looks the name up (operator[] leaves a
\* null entry for a new name) and compares the definitions (lines 401-417).
\* With the same definition the block ends here and the lock is released.
TriggerLocked(c) ==
  /\ cl[c].pc = "t_lock"
  /\ triggersLock = 0
  /\ LET n == cl[c].name
         old == IF triggers[n] = Absent THEN NoObj ELSE triggers[n]
     IN IF old # NoObj /\ obj[cl[c].cmd].definition = obj[old].definition
          THEN /\ cl' = [cl EXCEPT ![c].disposition = "already_defined",
                                   ![c].need_save = FALSE,
                                   ![c].pc = "t_finish"]
               /\ UNCHANGED <<triggers, triggersLock>>
          ELSE /\ triggers' = [triggers EXCEPT ![n] = old]
               /\ triggersLock' = c
               /\ cl' = [cl EXCEPT ![c].disposition =
                                      IF old # NoObj THEN "replaced" ELSE "created",
                                   ![c].old = old,
                                   ![c].pc = IF old # NoObj THEN "stop_flag" ELSE "t_start"]
  /\ UNCHANGED <<wvars, fvars, win32, stopping, ticks, fatal, obj, notify>>

\* Where the handler goes on when stop() returns.
AfterStop(c) == IF cl[c].op = "trigger" THEN "t_start" ELSE "d_erase"

\* stop(), lines 332-333: the flag is set, then joinable() is read.
StopFlag(c) ==
  /\ cl[c].pc = "stop_flag"
  /\ LET o == cl[c].old IN
       /\ obj' = [obj EXCEPT ![o].stopTrigger = TRUE]
       /\ cl' = [cl EXCEPT ![c].did_stop = o,
                           ![c].pc = IF obj[o].joinable THEN "stop_ping" ELSE AfterStop(c)]
  /\ UNCHANGED <<wvars, fvars, win32, stopping, triggers, triggersLock, ticks, fatal, notify>>

\* A stop() that does not set the ping event.
StopPing_NoEvent(c) ==
  /\ cl[c].pc = "stop_ping"
  /\ cl' = [cl EXCEPT ![c].pc = "stop_join"]
  /\ UNCHANGED <<wvars, fvars, win32, stopping, triggers, triggersLock, ticks, fatal,
                 obj, notify>>

\* stop(), line 334: w_event_set(ping_).
StopPing(c) ==
  /\ cl[c].pc = "stop_ping"
  /\ obj' = [obj EXCEPT ![cl[c].old].ping = TRUE]
  /\ cl' = [cl EXCEPT ![c].pc = "stop_join"]
  /\ UNCHANGED <<wvars, fvars, win32, stopping, triggers, triggersLock, ticks, fatal, notify>>

\* stop(), line 335: join() returns once the thread is out of run().
StopJoin(c) ==
  /\ cl[c].pc = "stop_join"
  /\ obj[cl[c].old].pc = "exited"
  /\ obj' = [obj EXCEPT ![cl[c].old].joinable = FALSE, ![cl[c].old].pc = "none"]
  /\ cl' = [cl EXCEPT ![c].pc = AfterStop(c)]
  /\ UNCHANGED <<wvars, fvars, win32, stopping, triggers, triggersLock, ticks, fatal, notify>>

\* start(root), lines 349-360: the object r subscribed and its thread begun.
Started(r) == [r EXCEPT !.subscribed = TRUE, !.joinable = TRUE, !.pc = "loop"]

\* A cmd_trigger that moves the new command into the table without
\* starting it.
TriggerStart_NoStart(c) ==
  /\ cl[c].pc = "t_start"
  /\ LET o == cl[c].cmd
         old == cl[c].old
     IN /\ obj' = [p \in Objs |-> IF p = old THEN FreeObj ELSE obj[p]]
        /\ fatal' = (fatal \/ (old # NoObj /\ DtorFatal(obj[old])))
        /\ notify' = notify \ {old}
        /\ triggers' = [triggers EXCEPT ![cl[c].name] = o]
        /\ cl' = [cl EXCEPT ![c].cmd = NoObj, ![c].did_start = o,
                            ![c].need_save = TRUE, ![c].pc = "t_finish"]
  /\ triggersLock' = 0
  /\ UNCHANGED <<wvars, fvars, win32, stopping, ticks>>

\* cmd_trigger, lines 424-429: the new command is started and moved into the
\* table entry, which destroys the object the entry held; the lock is released.
TriggerStart(c) ==
  /\ cl[c].pc = "t_start"
  /\ LET o == cl[c].cmd
         old == cl[c].old
     IN /\ obj' = [p \in Objs |->
                     IF p = o THEN Started(obj[o])
                     ELSE IF p = old THEN FreeObj ELSE obj[p]]
        /\ fatal' = (fatal \/ (old # NoObj /\ DtorFatal(obj[old])))
        /\ notify' = notify \ {old}
        /\ triggers' = [triggers EXCEPT ![cl[c].name] = o]
        /\ cl' = [cl EXCEPT ![c].cmd = NoObj, ![c].did_start = o,
                            ![c].need_save = TRUE, ![c].pc = "t_finish"]
  /\ triggersLock' = 0
  /\ UNCHANGED <<wvars, fvars, win32, stopping, ticks>>

\* cmd_trigger saving without advancing the tick.
TriggerFinish_NoTick(c) ==
  /\ cl[c].pc = "t_finish"
  /\ ticks' = ticks
  /\ LET o == cl[c].cmd IN
       /\ obj' = [p \in Objs |-> IF p = o THEN FreeObj ELSE obj[p]]
       /\ fatal' = (fatal \/ (o # NoObj /\ DtorFatal(obj[o])))
       /\ notify' = notify \ {o}
  /\ cl' = [cl EXCEPT ![c].did_tick = FALSE,
                      ![c].did_save = cl[c].need_save,
                      ![c].resp = "trigger", ![c].cmd = NoObj, ![c].pc = "done"]
  /\ UNCHANGED <<wvars, fvars, win32, stopping, triggers, triggersLock>>

\* cmd_trigger, lines 431-449: the tick and the save when need_save, the
\* response, and the end of the function, which destroys a command that was
\* not moved into the table.
TriggerFinish(c) ==
  /\ cl[c].pc = "t_finish"
  /\ ticks' = IF cl[c].need_save THEN ticks + 1 ELSE ticks
  /\ LET o == cl[c].cmd IN
       /\ obj' = [p \in Objs |-> IF p = o THEN FreeObj ELSE obj[p]]
       /\ fatal' = (fatal \/ (o # NoObj /\ DtorFatal(obj[o])))
       /\ notify' = notify \ {o}
  /\ cl' = [cl EXCEPT ![c].did_tick = cl[c].need_save,
                      ![c].did_save = cl[c].need_save,
                      ![c].resp = "trigger", ![c].cmd = NoObj, ![c].pc = "done"]
  /\ UNCHANGED <<wvars, fvars, win32, stopping, triggers, triggersLock>>

\* cmd_trigger_delete, from its entry to the name (lines 68-90).
DeleteBegin(c, req) ==
  /\ cl[c].pc = "idle"
  /\ cl' = [cl EXCEPT ![c] =
         IF DeleteReject(req) # ""
           THEN [IdleClient EXCEPT !.pc = "done", !.op = "del", !.req = req,
                                   !.resp = "error"]
           ELSE [IdleClient EXCEPT !.pc = "d_lock", !.op = "del", !.req = req,
                                   !.name = req.name]]
  /\ UNCHANGED <<wvars, fvars, win32, stopping, triggers, triggersLock, ticks, fatal, obj, notify>>

\* cmd_trigger_delete erasing the entry without stopping the trigger.
DeleteLocked_NoStop(c) ==
  /\ cl[c].pc = "d_lock"
  /\ triggersLock = 0
  /\ LET it == triggers[cl[c].name] IN
       IF it = Absent
         THEN /\ cl' = [cl EXCEPT ![c].res = FALSE, ![c].pc = "d_finish"]
              /\ UNCHANGED triggersLock
         ELSE /\ triggersLock' = c
              /\ cl' = [cl EXCEPT ![c].old = it,
                                  ![c].pc = IF it = NoObj THEN "null_deref" ELSE "d_erase"]
  /\ UNCHANGED <<wvars, fvars, win32, stopping, triggers, ticks, fatal, obj, notify>>

\* cmd_trigger_delete takes the write lock and looks the name up (lines
\* 93-96); an unknown name ends the block.  A null entry would be
\* dereferenced by it->second->stop().
DeleteLocked(c) ==
  /\ cl[c].pc = "d_lock"
  /\ triggersLock = 0
  /\ LET it == triggers[cl[c].name] IN
       IF it = Absent
         THEN /\ cl' = [cl EXCEPT ![c].res = FALSE, ![c].pc = "d_finish"]
              /\ UNCHANGED triggersLock
         ELSE /\ triggersLock' = c
              /\ cl' = [cl EXCEPT ![c].old = it,
                                  ![c].pc = IF it = NoObj THEN "null_deref" ELSE "stop_flag"]
  /\ UNCHANGED <<wvars, fvars, win32, stopping, triggers, ticks, fatal, obj, notify>>

\* cmd_trigger_delete, lines 100-103: erase destroys the object; the lock is
\* released.
DeleteErase(c) ==
  /\ cl[c].pc = "d_erase"
  /\ LET old == cl[c].old IN
       /\ obj' = [obj EXCEPT ![old] = FreeObj]
       /\ fatal' = (fatal \/ DtorFatal(obj[old]))
       /\ notify' = notify \ {old}
  /\ triggers' = [triggers EXCEPT ![cl[c].name] = Absent]
  /\ triggersLock' = 0
  /\ cl' = [cl EXCEPT ![c].res = TRUE, ![c].pc = "d_finish"]
  /\ UNCHANGED <<wvars, fvars, win32, stopping, ticks>>

\* cmd_trigger_delete saving whether or not it deleted.
DeleteFinish_AlwaysSave(c) ==
  /\ cl[c].pc = "d_finish"
  /\ cl' = [cl EXCEPT ![c].did_save = TRUE, ![c].resp = "del",
                      ![c].deleted = cl[c].res, ![c].pc = "done"]
  /\ UNCHANGED <<wvars, fvars, win32, stopping, triggers, triggersLock, ticks, fatal, obj, notify>>

\* cmd_trigger_delete, lines 105-112: the save when res, and the response.
DeleteFinish(c) ==
  /\ cl[c].pc = "d_finish"
  /\ cl' = [cl EXCEPT ![c].did_save = cl[c].res, ![c].resp = "del",
                      ![c].deleted = cl[c].res, ![c].pc = "done"]
  /\ UNCHANGED <<wvars, fvars, win32, stopping, triggers, triggersLock, ticks, fatal, obj, notify>>

\* The handler has returned; the client is free to send its next request.
Return(c) ==
  /\ cl[c].pc = "done"
  /\ cl' = [cl EXCEPT ![c] = IdleClient]
  /\ UNCHANGED <<wvars, fvars, win32, stopping, triggers, triggersLock, ticks, fatal, obj, notify>>

\* ------------------------------------------------ the trigger thread
ThrFrame == UNCHANGED <<wvars, fvars, win32, stopping, triggers, triggersLock,
                        ticks, fatal, notify, cl>>

\* run(), line 44 and waitNoIntr(), line 9: the loop condition.
KeepGoing(o) == ~stopping /\ ~obj[o].stopTrigger

\* run(), line 44: the outer loop condition.
ThrLoop(o) ==
  /\ obj[o].pc = "loop"
  /\ obj' = [obj EXCEPT ![o].pc = IF KeepGoing(o) THEN "poll" ELSE "exited"]
  /\ ThrFrame

\* run(), line 45: w_poll_events returns because ping_ is set.
ThrPoll(o) ==
  /\ obj[o].pc = "poll"
  /\ obj[o].ping
  /\ obj' = [obj EXCEPT ![o].pc = "chk"]
  /\ ThrFrame

\* run(), line 45: w_poll_events returns on its timeout of 86400 s.
ThrPollTimeout(o) ==
  /\ obj[o].pc = "poll"
  /\ ~obj[o].ping
  /\ obj' = [obj EXCEPT ![o].pc = "chk"]
  /\ ThrFrame

\* run(), lines 46-48: the check after the wait.
ThrCheck(o) ==
  /\ obj[o].pc = "chk"
  /\ obj' = [obj EXCEPT ![o].pc = IF KeepGoing(o) THEN "tac" ELSE "exited"]
  /\ ThrFrame

\* run(), line 49: w_event_test_and_clear(ping_).
ThrTestAndClear(o) ==
  /\ obj[o].pc = "tac"
  /\ obj' = [obj EXCEPT ![o].ping = FALSE,
                        ![o].pc = IF obj[o].ping THEN "get" ELSE "loop"]
  /\ ThrFrame

\* run() without the test of "settled".
ThrGetNext_AnyBatch(o) ==
  /\ obj[o].pc = "get"
  /\ obj' = [obj EXCEPT ![o] =
       IF obj[o].sub = <<>>
         THEN [obj[o] EXCEPT !.attempts = 0, !.pc = "tac"]
         ELSE [obj[o] EXCEPT !.sub = Tail(obj[o].sub), !.attempts = 0, !.pc = "spawn"]]
  /\ ThrFrame

\* run(), lines 50-53: getNext() and the test of "settled".  attempts counts
\* the calls of maybeSpawn for the batch in hand.
ThrGetNext(o) ==
  /\ obj[o].pc = "get"
  /\ obj' = [obj EXCEPT ![o] =
       IF obj[o].sub = <<>>
         THEN [obj[o] EXCEPT !.attempts = 0, !.pc = "tac"]
       ELSE IF ~Head(obj[o].sub)
         THEN [obj[o] EXCEPT !.sub = Tail(obj[o].sub), !.attempts = 0, !.pc = "get"]
       ELSE [obj[o] EXCEPT !.sub = Tail(obj[o].sub), !.attempts = 0, !.pc = "spawn"]]
  /\ ThrFrame

\* run(), lines 54-56: maybeSpawn() starts a child (spawned) or does not.
ThrMaybeSpawn(o, spawned) ==
  /\ obj[o].pc = "spawn"
  /\ obj' = [obj EXCEPT ![o] =
       IF spawned
         THEN [obj[o] EXCEPT !.attempts = obj[o].attempts + 1, !.current_proc = 1,
                             !.pc = "wait"]
         ELSE [obj[o] EXCEPT !.attempts = obj[o].attempts + 1, !.pc = "get"]]
  /\ ThrFrame

\* waitNoIntr(), line 9: the loop condition; false ends the wait.
ThrWaitLoop(o) ==
  /\ obj[o].pc = "wait"
  /\ obj' = [obj EXCEPT ![o].pc = IF KeepGoing(o) THEN "waitpid" ELSE "get"]
  /\ ThrFrame

\* waitNoIntr(), lines 11-15: the child exits and waitpid returns its pid.
ThrWaitpidChild(o) ==
  /\ obj[o].pc = "waitpid"
  /\ obj' = [obj EXCEPT ![o].current_proc = 0, ![o].pc = "get"]
  /\ ThrFrame

\* waitNoIntr(), lines 11-28: waitpid fails, with EINTR (the loop goes
\* round) or with another error (the wait ends).
ThrWaitpidFail(o, eintr) ==
  /\ obj[o].pc = "waitpid"
  /\ obj' = [obj EXCEPT ![o].pc = IF eintr THEN "wait" ELSE "get"]
  /\ ThrFrame

\* ------------------------------------------------------ environment
\* The root publishes a batch: it is queued for every subscription, and
\* each subscriber's notifier (w_event_set(ping_)) is then due.
Subscribers == {o \in Objs : obj[o].alive /\ obj[o].subscribed}

Publish(settled) ==
  /\ Subscribers # {}
  /\ \A o \in Subscribers : Len(obj[o].sub) < MaxQueue
  /\ obj' = [o \in Objs |->
               IF o \in Subscribers
                 THEN [obj[o] EXCEPT !.sub = Append(obj[o].sub, settled)]
                 ELSE obj[o]]
  /\ notify' = Subscribers
  /\ UNCHANGED <<wvars, fvars, win32, stopping, triggers, triggersLock, ticks, fatal, cl>>

\* A notifier that does not set the ping event.
Notify_NoPing(o) ==
  /\ o \in notify
  /\ notify' = notify \ {o}
  /\ UNCHANGED <<wvars, fvars, win32, stopping, triggers, triggersLock, ticks, fatal,
                 obj, cl>>

\* start(), line 351: the notifier registered with subscribe().
Notify(o) ==
  /\ o \in notify
  /\ obj' = [obj EXCEPT ![o].ping = TRUE]
  /\ notify' = notify \ {o}
  /\ UNCHANGED <<wvars, fvars, win32, stopping, triggers, triggersLock, ticks, fatal, cl>>

\* The daemon begins to shut down: w_is_stopping() is true from here on.
Shutdown ==
  /\ ~stopping
  /\ stopping' = TRUE
  /\ UNCHANGED <<wvars, fvars, win32, triggers, triggersLock, ticks, fatal, obj, notify, cl>>

\* The steps of the control handlers, for requests drawn from treqs and dreqs.
Control(treqs, dreqs) ==
  \/ \E c \in DOMAIN cl : \E req \in treqs : TriggerBegin(c, req)
  \/ \E c \in DOMAIN cl : TriggerLocked(c)
  \/ \E c \in DOMAIN cl : StopFlag(c)
  \/ \E c \in DOMAIN cl : StopPing(c)
  \/ \E c \in DOMAIN cl : StopJoin(c)
  \/ \E c \in DOMAIN cl : TriggerStart(c)
  \/ \E c \in DOMAIN cl : TriggerFinish(c)
  \/ \E c \in DOMAIN cl : \E req \in dreqs : DeleteBegin(c, req)
  \/ \E c \in DOMAIN cl : DeleteLocked(c)
  \/ \E c \in DOMAIN cl : DeleteErase(c)
  \/ \E c \in DOMAIN cl : DeleteFinish(c)
  \/ \E c \in DOMAIN cl : Return(c)

\* The steps of a trigger thread that sleeps until it is stopped: run(),
\* lines 44-48.
ThreadsIdle ==
  \/ \E o \in Objs : ThrLoop(o)
  \/ \E o \in Objs : ThrPoll(o)
  \/ \E o \in Objs : ThrCheck(o)

\* The steps of a trigger thread that wakes for batches or on the timeout
\* of its wait: run(), lines 45-58.
ThreadsBatch ==
  \/ \E o \in Objs : ThrPollTimeout(o)
  \/ \E o \in Objs : ThrTestAndClear(o)
  \/ \E o \in Objs : ThrGetNext(o)
  \/ \E o \in Objs : \E spawned \in BOOLEAN : ThrMaybeSpawn(o, spawned)
  \/ \E o \in Objs : ThrWaitLoop(o)
  \/ \E o \in Objs : ThrWaitpidChild(o)
  \/ \E o \in Objs : \E eintr \in BOOLEAN : ThrWaitpidFail(o, eintr)

\* The root's publisher.
Publisher ==
  \/ \E settled \in BOOLEAN : Publish(settled)
  \/ \E o \in Objs : Notify(o)

\* ============================================= the win32 watcher
NETWORK_BUF_SIZE == 65536
WATCHMAN_BATCH_LIMIT == 16384
SizeofNotifyInformation == 16

\* readChangesThread, line 101: the size of the first reads.
InitialSize == WATCHMAN_BATCH_LIMIT * (SizeofNotifyInformation + 512)

\* Paths are sequences of components.  A change record has a name relative
\* to the root; the empty name is what a zeroed buffer decodes to.
RootPath == <<"r">>
RecordNames == {<<"a">>, <<"b">>, <<".git", "c">>}
IgnoredDirs == {<<"r", ".git">>}

\* w_string::pathCat({root->root_path, name})
PathCat(root, name) == root \o name

\* root->ignore.isIgnored(path): some ignored directory is the path or an
\* ancestor of it.
IsIgnored(path) ==
  \E d \in IgnoredDirs : Len(d) <= Len(path) /\ SubSeq(path, 1, Len(d)) = d

\* readChangesThread, lines 205-228: the buffer's records as full paths,
\* without the ignored ones, in the buffer's order.
RECURSIVE Decode(_)
Decode(records) ==
  IF records = <<>> THEN <<>>
  ELSE LET full == PathCat(RootPath, Head(records))
       IN IF IsIgnored(full) THEN Decode(Tail(records))
                             ELSE <<full>> \o Decode(Tail(records))

\* The batches a completed read can carry.
Batches ==
  UNION {[1 .. n -> RecordNames] : n \in 1 .. MaxBatch}

\* The watcher as its constructor leaves it, before start().
InitWin ==
  /\ cancelled = FALSE
  /\ failure_reason = FALSE
  /\ recrawl = FALSE
  /\ mutex = "free"
  /\ changedItems = <<>>
  /\ pingEvent = FALSE
  /\ olapEvent = FALSE
  /\ outstanding = 0
  /\ olapResult = "none"
  /\ buf = << <<>> >>
  /\ size = InitialSize
  /\ initiate_read = TRUE
  /\ items = <<>>
  /\ rpc = "unstarted"
  /\ firstRead = "none"
  /\ spc = "idle"
  /\ startWoken = FALSE
  /\ startResult = "none"
  /\ cpc = "idle"
  /\ cItems = <<>>
  /\ added = <<>>
  /\ reported = <<>>

\* root->cancel(): the root is marked cancelled.
Cancel == cancelled' = TRUE

\* cond.notify_one(): start() is woken if it is waiting.
NotifyOne == startWoken' = (startWoken \/ spc = "waiting")

\* ReadDirectoryChangesW queues a read: olap is pending and its event reset.
IssueRead ==
  /\ outstanding' = outstanding + 1
  /\ olapResult' = "pending"
  /\ olapEvent' = FALSE

\* start(), lines 259-282: the lock is taken and the thread created.
StartSpawn ==
  /\ spc = "idle"
  /\ mutex = "free"
  /\ mutex' = "start"
  /\ rpc' = "init"
  /\ spc' = "spawned"
  /\ UNCHANGED <<tvars, fvars>>
  /\ UNCHANGED <<cancelled, failure_reason, recrawl, changedItems, pingEvent,
                 olapEvent, outstanding, olapResult, buf, size, initiate_read,
                 items, firstRead, startWoken, startResult, cpc, cItems, added,
                 reported>>

\* start(), line 285: wait_for releases the lock and waits.
StartWait ==
  /\ spc = "spawned"
  /\ mutex' = "free"
  /\ spc' = "waiting"
  /\ UNCHANGED <<tvars, fvars>>
  /\ UNCHANGED <<cancelled, failure_reason, recrawl, changedItems, pingEvent,
                 olapEvent, outstanding, olapResult, buf, size, initiate_read,
                 items, rpc, firstRead, startWoken, startResult, cpc, cItems,
                 added, reported>>

\* start(), lines 285-300: wait_for returns on a notification.
StartWake ==
  /\ spc = "waiting"
  /\ startWoken
  /\ mutex = "free"
  /\ startResult' = IF failure_reason THEN "false" ELSE "true"
  /\ spc' = "returned"
  /\ UNCHANGED <<tvars, fvars>>
  /\ UNCHANGED <<cancelled, failure_reason, recrawl, mutex, changedItems,
                 pingEvent, olapEvent, outstanding, olapResult, buf, size,
                 initiate_read, items, rpc, firstRead, startWoken, cpc, cItems,
                 added, reported>>

\* start(), lines 285-291: wait_for returns on its timeout of 10 s.
StartTimeout ==
  /\ spc = "waiting"
  /\ ~startWoken
  /\ mutex = "free"
  /\ Cancel
  /\ startResult' = "false"
  /\ spc' = "returned"
  /\ UNCHANGED <<tvars, fvars>>
  /\ UNCHANGED <<failure_reason, recrawl, mutex, changedItems, pingEvent,
                 olapEvent, outstanding, olapResult, buf, size, initiate_read,
                 items, rpc, firstRead, startWoken, cpc, cItems, added,
                 reported>>

\* readChangesThread, lines 113-142: under the lock, the first read is
\* issued (ok) and the condition notified, or the read fails.
ReaderInit(ok) ==
  /\ rpc = "init"
  /\ mutex = "free"
  /\ IF ok
       THEN /\ IssueRead
            /\ NotifyOne
            /\ firstRead' = "issued"
            /\ initiate_read' = FALSE
            /\ rpc' = "loop"
            /\ UNCHANGED cancelled
       ELSE /\ Cancel
            /\ firstRead' = "failed"
            /\ rpc' = "exit"
            /\ UNCHANGED <<outstanding, olapResult, olapEvent, startWoken,
                           initiate_read>>
  /\ UNCHANGED <<tvars, fvars>>
  /\ UNCHANGED <<failure_reason, recrawl, mutex, changedItems, pingEvent, buf,
                 size, items, spc, startResult, cpc, cItems, added, reported>>

\* start(), lines 271-277: the thread's function ends by notifying the
\* condition under the lock.
ReaderExit ==
  /\ rpc = "exit"
  /\ mutex = "free"
  /\ NotifyOne
  /\ rpc' = "done"
  /\ UNCHANGED <<tvars, fvars>>
  /\ UNCHANGED <<cancelled, failure_reason, recrawl, mutex, changedItems,
                 pingEvent, olapEvent, outstanding, olapResult, buf, size,
                 initiate_read, items, firstRead, spc, startResult, cpc, cItems,
                 added, reported>>

\* A loop that issues a read on every round, whatever initiate_read holds.
ReaderLoop_AlwaysIssue(ok) ==
  /\ rpc = "loop"
  /\ IF cancelled
       THEN /\ rpc' = "exit"
            /\ UNCHANGED <<cancelled, outstanding, olapResult, olapEvent,
                           initiate_read>>
       ELSE IF ok
         THEN /\ IssueRead
              /\ initiate_read' = FALSE
              /\ rpc' = "wait"
              /\ UNCHANGED cancelled
       ELSE /\ Cancel
            /\ rpc' = "exit"
            /\ UNCHANGED <<outstanding, olapResult, olapEvent, initiate_read>>
  /\ UNCHANGED <<tvars, fvars>>
  /\ UNCHANGED <<failure_reason, recrawl, mutex, changedItems, pingEvent, buf,
                 size, items, firstRead, spc, startWoken, startResult, cpc,
                 cItems, added, reported>>

\* readChangesThread, lines 145-165: the loop condition, and the read
\* issued (ok) or failing when initiate_read is set.
ReaderLoop(ok) ==
  /\ rpc = "loop"
  /\ IF cancelled
       THEN /\ rpc' = "exit"
            /\ UNCHANGED <<cancelled, outstanding, olapResult, olapEvent,
                           initiate_read>>
       ELSE IF ~initiate_read
         THEN /\ rpc' = "wait"
              /\ UNCHANGED <<cancelled, outstanding, olapResult, olapEvent,
                             initiate_read>>
       ELSE IF ok
         THEN /\ IssueRead
              /\ initiate_read' = FALSE
              /\ rpc' = "wait"
              /\ UNCHANGED cancelled
       ELSE /\ Cancel
            /\ rpc' = "exit"
            /\ UNCHANGED <<outstanding, olapResult, olapEvent, initiate_read>>
  /\ UNCHANGED <<tvars, fvars>>
  /\ UNCHANGED <<failure_reason, recrawl, mutex, changedItems, pingEvent, buf,
                 size, items, firstRead, spc, startWoken, startResult, cpc,
                 cItems, added, reported>>

\* readChangesThread, lines 168-171 and 238-240: WaitForMultipleObjects
\* returns for olapEvent, or else for ping.
ReaderWaitSignalled ==
  /\ rpc = "wait"
  /\ olapEvent \/ pingEvent
  /\ rpc' = IF olapEvent THEN "result" ELSE "exit"
  /\ UNCHANGED <<tvars, fvars>>
  /\ UNCHANGED <<cancelled, failure_reason, recrawl, mutex, changedItems,
                 pingEvent, olapEvent, outstanding, olapResult, buf, size,
                 initiate_read, items, firstRead, spc, startWoken, startResult,
                 cpc, cItems, added, reported>>

\* readChangesThread, lines 168 and 241: WaitForMultipleObjects times out.
ReaderWaitTimeout ==
  /\ rpc = "wait"
  /\ ~olapEvent /\ ~pingEvent
  /\ rpc' = "loop"
  /\ UNCHANGED <<tvars, fvars>>
  /\ UNCHANGED <<cancelled, failure_reason, recrawl, mutex, changedItems,
                 pingEvent, olapEvent, outstanding, olapResult, buf, size,
                 initiate_read, items, firstRead, spc, startWoken, startResult,
                 cpc, cItems, added, reported>>

\* A completion handler that shrinks on every parameter error, whatever the
\* buffer's size.
ReaderFailed_ShrinkAlways ==
  /\ rpc = "result"
  /\ olapResult \in {"pending", "param", "enumdir", "error"}
  /\ IF olapResult = "param"
       THEN /\ size' = NETWORK_BUF_SIZE
            /\ initiate_read' = TRUE
            /\ rpc' = "loop"
            /\ UNCHANGED <<recrawl, cancelled>>
       ELSE IF olapResult = "enumdir"
         THEN /\ recrawl' = TRUE
              /\ rpc' = "loop"
              /\ UNCHANGED <<size, initiate_read, cancelled>>
       ELSE /\ Cancel
            /\ rpc' = "exit"
            /\ UNCHANGED <<size, initiate_read, recrawl>>
  /\ UNCHANGED <<tvars, fvars>>
  /\ UNCHANGED <<failure_reason, mutex, changedItems, pingEvent, olapEvent,
                 outstanding, olapResult, buf, items, firstRead, spc,
                 startWoken, startResult, cpc, cItems, added, reported>>

\* readChangesThread, lines 172-203: GetOverlappedResult fails.
ReaderFailed ==
  /\ rpc = "result"
  /\ olapResult \in {"pending", "param", "enumdir", "error"}
  /\ IF olapResult = "param" /\ size > NETWORK_BUF_SIZE
       THEN /\ size' = NETWORK_BUF_SIZE
            /\ initiate_read' = TRUE
            /\ rpc' = "loop"
            /\ UNCHANGED <<recrawl, cancelled>>
       ELSE IF olapResult = "enumdir"
         THEN /\ recrawl' = TRUE
              /\ rpc' = "loop"
              /\ UNCHANGED <<size, initiate_read, cancelled>>
       ELSE /\ Cancel
            /\ rpc' = "exit"
            /\ UNCHANGED <<size, initiate_read, recrawl>>
  /\ UNCHANGED <<tvars, fvars>>
  /\ UNCHANGED <<failure_reason, mutex, changedItems, pingEvent, olapEvent,
                 outstanding, olapResult, buf, items, firstRead, spc,
                 startWoken, startResult, cpc, cItems, added, reported>>

\* readChangesThread, lines 204-237: GetOverlappedResult succeeds and the
\* records in buf are decoded, whatever the number of bytes transferred;
\* with no item left the event is reset and the next read asked for.
ReaderDecode ==
  /\ rpc = "result"
  /\ olapResult \in {"ok", "zero"}
  /\ IF Decode(buf) = <<>>
       THEN /\ olapEvent' = FALSE
            /\ initiate_read' = TRUE
            /\ rpc' = "loop"
            /\ UNCHANGED items
       ELSE /\ items' = Decode(buf)
            /\ rpc' = "push"
            /\ UNCHANGED <<olapEvent, initiate_read>>
  /\ UNCHANGED <<tvars, fvars>>
  /\ UNCHANGED <<cancelled, failure_reason, recrawl, mutex, changedItems,
                 pingEvent, outstanding, olapResult, buf, size, firstRead, spc,
                 startWoken, startResult, cpc, cItems, added, reported>>

\* readChangesThread, lines 230-236: the items are moved to the end of
\* changedItems under the lock, the condition notified, the event reset.
ReaderPush ==
  /\ rpc = "push"
  /\ mutex = "free"
  /\ changedItems' = changedItems \o items
  /\ items' = <<>>
  /\ NotifyOne
  /\ olapEvent' = FALSE
  /\ initiate_read' = TRUE
  /\ rpc' = "loop"
  /\ UNCHANGED <<tvars, fvars>>
  /\ UNCHANGED <<cancelled, failure_reason, recrawl, mutex, pingEvent,
                 outstanding, olapResult, buf, size, firstRead, spc,
                 startResult, cpc, cItems, added, reported>>

\* The directory handle completes the outstanding read: with the change
\* records recs ("ok"), with no byte transferred because the changes did
\* not fit ("zero": the buffer is left as it was), or with an error.
Complete(result, recs) ==
  /\ outstanding > 0
  /\ Len(added) + Len(cItems) + Len(changedItems) + Len(items) < MaxReported
  /\ outstanding' = outstanding - 1
  /\ olapResult' = result
  /\ olapEvent' = TRUE
  /\ IF result = "ok"
       THEN /\ Len(reported) + Len(recs) <= MaxReported
            /\ buf' = recs
            /\ reported' = reported \o recs
       ELSE UNCHANGED <<buf, reported>>
  /\ UNCHANGED <<tvars, fvars>>
  /\ UNCHANGED <<cancelled, failure_reason, recrawl, mutex, changedItems,
                 pingEvent, size, initiate_read, items, rpc, firstRead, spc,
                 startWoken, startResult, cpc, cItems, added>>

\* signalThreads(), lines 96-98.
SignalThreads ==
  /\ ~pingEvent
  /\ pingEvent' = TRUE
  /\ UNCHANGED <<tvars, fvars>>
  /\ UNCHANGED <<cancelled, failure_reason, recrawl, mutex, changedItems,
                 olapEvent, outstanding, olapResult, buf, size, initiate_read,
                 items, rpc, firstRead, spc, startWoken, startResult, cpc,
                 cItems, added, reported>>

\* consumeNotify, lines 330-333: the items are swapped out under the lock.
ConsumeSwap ==
  /\ cpc = "idle"
  /\ startResult = "true"
  /\ mutex = "free"
  /\ changedItems # <<>>
  /\ cItems' = changedItems
  /\ changedItems' = <<>>
  /\ cpc' = "add"
  /\ UNCHANGED <<tvars, fvars>>
  /\ UNCHANGED <<cancelled, failure_reason, recrawl, mutex, pingEvent,
                 olapEvent, outstanding, olapResult, buf, size, initiate_read,
                 items, rpc, firstRead, spc, startWoken, startResult, added,
                 reported>>

\* consumeNotify, lines 335-342: every item is added to the collection.
ConsumeAdd ==
  /\ cpc = "add"
  /\ added' = added \o cItems
  /\ cItems' = <<>>
  /\ cpc' = "idle"
  /\ UNCHANGED <<tvars, fvars>>
  /\ UNCHANGED <<cancelled, failure_reason, recrawl, mutex, changedItems,
                 pingEvent, olapEvent, outstanding, olapResult, buf, size,
                 initiate_read, items, rpc, firstRead, spc, startWoken,
                 startResult, reported>>

NextWin ==
  \/ StartSpawn
  \/ StartWait
  \/ StartWake
  \/ StartTimeout
  \/ \E ok \in BOOLEAN : ReaderInit(ok)
  \/ ReaderExit
  \/ \E ok \in BOOLEAN : ReaderLoop(ok)
  \/ ReaderWaitSignalled
  \/ ReaderWaitTimeout
  \/ ReaderFailed
  \/ ReaderDecode
  \/ ReaderPush
  \/ \E recs \in Batches : Complete("ok", recs)
  \/ \E result \in {"zero", "param", "enumdir", "error"} : Complete(result, <<>>)
  \/ SignalThreads
  \/ ConsumeSwap
  \/ ConsumeAdd

\* ============================================= parse_redirection
\* The characters of a redirection, and the redirections of up to MaxName
\* characters.
Chars == {">", "o"}
Redirections == UNION {[1 .. n -> Chars] : n \in 0 .. MaxName}

\* What *flags can hold when parse_redirection is called.
FlagSets == {{}, {"O_RDONLY"}}

\* No call of parse_redirection is under way.
NoCall ==
  [pc |-> "none", present |-> FALSE, name0 |-> <<>>, flags0 |-> {},
   ok |-> FALSE, name |-> <<>>, flags |-> {}]

\* The calls of parse_redirection: with a null *name_p, or with a string.
Calls ==
  {[NoCall EXCEPT !.pc = "call", !.present = TRUE, !.name0 = n, !.name = n,
                  !.flags0 = f, !.flags = f] :
     n \in Redirections, f \in FlagSets}
  \cup {[NoCall EXCEPT !.pc = "call", !.flags0 = f, !.flags = f] : f \in FlagSets}


\* parse_redirection(&name, &flags, label, errmsg) runs and returns.
CallParseRedirection ==
  /\ redir.pc = "call"
  /\ LET r == ParseRedirection(redir.present, redir.name0, redir.flags0, win32)
     IN redir' = [redir EXCEPT !.pc = "returned", !.ok = r.ok, !.name = r.name,
                               !.flags = r.flags]
  /\ UNCHANGED <<tvars, wvars, vcs>>

\* ============================================= the VCS ignore configuration
\* A JSON value of the ignore_vcs array: a string, or something else.
JStr(str) == [str |-> TRUE, s |-> str]
JOther == [str |-> FALSE, s |-> ""]
Elements == {JStr(".git"), JStr(".hg"), JOther}

\* config_get_ignore_vcs, lines 14-16: the default array.
DefaultVcs == <<JStr(".git"), JStr(".svn"), JStr(".hg")>>

\* root->config.get("ignore_vcs"): absent, an array, or another value.
Configs ==
  {[kind |-> "absent", elems |-> <<>>], [kind |-> "other", elems |-> <<>>]}
  \cup {[kind |-> "array", elems |-> e] :
          e \in UNION {[1 .. n -> Elements] : n \in 0 .. MaxIgnores}}

\* config_get_ignore_vcs(root): ok is false for the null result.
ConfigGetIgnoreVcs(config) ==
  IF config.kind = "other" THEN [ok |-> FALSE, ignores |-> <<>>]
  ELSE IF config.kind = "absent" THEN [ok |-> TRUE, ignores |-> DefaultVcs]
  ELSE [ok |-> TRUE, ignores |-> config.elems]

VcsPaths == {PathCat(RootPath, <<n>>) : n \in {".git", ".svn", ".hg"}}
OtherCookieDir == <<"r", ".cookies">>

\* No call of applyIgnoreVCSConfiguration is under way.
NoApply ==
  [pc |-> "none", config |-> [kind |-> "absent", elems |-> <<>>],
   ignores |-> <<>>, i |-> 0, ignore_dirs |-> {}, ignore_vcs |-> {},
   adds |-> <<>>, cookieDir |-> RootPath, dirs0 |-> {}, cookie0 |-> RootPath,
   fs |-> {}]

\* The calls: any configuration, on a root some of whose VCS paths are
\* already ignored in full (ignore_dirs) or exist as directories (fs), and
\* whose cookie directory is the root path or one designated before.
Applies ==
  {[NoApply EXCEPT !.pc = "call", !.config = cf, !.ignore_dirs = ig,
                   !.dirs0 = ig, !.fs = d, !.cookieDir = ck, !.cookie0 = ck] :
     cf \in Configs, ig \in SUBSET {<<"r", ".git">>, <<"r", ".hg">>},
     d \in SUBSET VcsPaths, ck \in {RootPath, OtherCookieDir}}

InitFn == redir = NoCall /\ vcs = NoApply

\* ignore.isIgnoreDir(path): the path is ignored in full.
IsIgnoreDir(v, path) == path \in v.ignore_dirs

\* applyIgnoreVCSConfiguration, lines 26-29: the array is fetched; a null
\* result throws.
ApplyBegin ==
  /\ vcs.pc = "call"
  /\ LET r == ConfigGetIgnoreVcs(vcs.config)
     IN vcs' = IF r.ok
                 THEN [vcs EXCEPT !.pc = "loop", !.ignores = r.ignores, !.i = 0]
                 ELSE [vcs EXCEPT !.pc = "error"]
  /\ UNCHANGED <<tvars, wvars, redir>>

\* An applyIgnoreVCSConfiguration that sets the cookie directory to every
\* VCS directory it finds.
ApplyStep_Override ==
  /\ vcs.pc = "loop"
  /\ vcs' =
       IF vcs.i >= Len(vcs.ignores) THEN [vcs EXCEPT !.pc = "done"]
       ELSE LET jignore == vcs.ignores[vcs.i + 1]
                fullname == PathCat(RootPath, <<jignore.s>>)
            IN IF ~jignore.str THEN [vcs EXCEPT !.pc = "error"]
               ELSE IF IsIgnoreDir(vcs, fullname)
                 THEN [vcs EXCEPT !.i = (vcs.i + 1) % 256]
               ELSE [vcs EXCEPT
                       !.ignore_vcs = vcs.ignore_vcs \cup {fullname},
                       !.adds = Append(vcs.adds, fullname),
                       !.cookieDir = IF fullname \in vcs.fs
                                       THEN fullname ELSE vcs.cookieDir,
                       !.i = (vcs.i + 1) % 256]
  /\ UNCHANGED <<tvars, wvars, redir>>

\* applyIgnoreVCSConfiguration, lines 31-56: one round of the loop, whose
\* index is a uint8_t; a non-string element throws.
ApplyStep ==
  /\ vcs.pc = "loop"
  /\ vcs' =
       IF vcs.i >= Len(vcs.ignores) THEN [vcs EXCEPT !.pc = "done"]
       ELSE LET jignore == vcs.ignores[vcs.i + 1]
                fullname == PathCat(RootPath, <<jignore.s>>)
            IN IF ~jignore.str THEN [vcs EXCEPT !.pc = "error"]
               ELSE IF IsIgnoreDir(vcs, fullname)
                 THEN [vcs EXCEPT !.i = (vcs.i + 1) % 256]
               ELSE [vcs EXCEPT
                       !.ignore_vcs = vcs.ignore_vcs \cup {fullname},
                       !.adds = Append(vcs.adds, fullname),
                       !.cookieDir = IF vcs.cookieDir = RootPath /\ fullname \in vcs.fs
                                       THEN fullname ELSE vcs.cookieDir,
                       !.i = (vcs.i + 1) % 256]
  /\ UNCHANGED <<tvars, wvars, redir>>

vars == <<tvars, wvars, fvars>>

\* Two control connections and two trigger names on a POSIX build, while
\* the root publishes nothing and no wait times out: the trigger threads
\* sleep until they are stopped or the daemon shuts down.
CtlTriggerRequests ==
  {ObjReq(BaseTrig("a", <<"x">>)), ObjReq(BaseTrig("a", <<"y">>)),
   ObjReq([BaseTrig("a", <<"z">>) EXCEPT !.cmd = <<>>])}
    \cup GoodLegacy \cup BadArgs
NextTrig == Control(CtlTriggerRequests, DeleteRequests) \/ ThreadsIdle \/ Shutdown
InitCtl == InitTrig({1, 2}, {FALSE}) /\ InitWin /\ InitFn
Spec == InitCtl /\ [][NextTrig]_vars

\* One control connection and one trigger name on either build, with the
\* root publishing batches and the triggers spawning commands.
RunTriggerRequests ==
  {ObjReq(t) : t \in GoodTrigs \cup {AppendOut} \cup BadTrigs} \cup BadLegacy \cup BadArgs
RunDeleteRequests == {r \in DeleteRequests : r.name # "b"}
NextRun ==
  \/ Control(RunTriggerRequests, RunDeleteRequests)
  \/ ThreadsIdle
  \/ ThreadsBatch
  \/ Publisher
  \/ Shutdown
InitRun == InitTrig({1}, BOOLEAN) /\ InitWin /\ InitFn
SpecRun == InitRun /\ [][NextRun]_vars

\* The same with the scheduling the threads get: a control handler or a
\* trigger thread that can take a step of its own takes one.  A child is not
\* bound to exit, nor a signal to arrive, nor the root to publish.
ControlSteps ==
  \E c \in DOMAIN cl :
    \/ TriggerLocked(c) \/ StopFlag(c) \/ StopPing(c) \/ StopJoin(c)
    \/ TriggerStart(c) \/ TriggerFinish(c) \/ DeleteLocked(c) \/ DeleteErase(c)
    \/ DeleteFinish(c) \/ Return(c)
ThreadSteps ==
  \E o \in Objs :
    \/ ThrLoop(o) \/ ThrPoll(o) \/ ThrCheck(o) \/ ThrTestAndClear(o)
    \/ ThrGetNext(o) \/ ThrWaitLoop(o)
    \/ \E spawned \in BOOLEAN : ThrMaybeSpawn(o, spawned)
SpecRunFair == SpecRun /\ WF_vars(ControlSteps) /\ WF_vars(ThreadSteps)

\* One control connection that defines, redefines and deletes the trigger
\* "a" while the root publishes, with the scheduling the threads get: a
\* control handler or a trigger thread that can take a step of its own
\* takes one.
LiveTriggerRequests ==
  {ObjReq(BaseTrig("a", <<"x">>)), ObjReq(BaseTrig("a", <<"y">>))}
LiveDeleteRequests == {DelReq("a")}
NextLive ==
  \/ Control(LiveTriggerRequests, LiveDeleteRequests)
  \/ ThreadsIdle
  \/ ThreadsBatch
  \/ Publisher
  \/ Shutdown
InitLive == InitTrig({1}, {FALSE}) /\ InitWin /\ InitFn
SpecStop ==
  InitLive /\ [][NextLive]_vars /\ WF_vars(ControlSteps) /\ WF_vars(ThreadSteps)

\* The same where, besides, a notifier that is due is called and a spawned
\* child exits in the end, however often a signal interrupts the wait for it.
NotifySteps == \E o \in Objs : Notify(o)
ChildExits == \E o \in Objs : ThrWaitpidChild(o)
SpecLive == SpecStop /\ WF_vars(NotifySteps) /\ SF_vars(ChildExits)

\* The win32 watcher of a root, from start() on; no trigger is involved.
InitWatcher == InitTrig({}, {TRUE}) /\ InitWin /\ InitFn
SpecWin == InitWatcher /\ [][NextWin]_vars

\* The same with the scheduling the read thread gets: whenever it can take
\* a step it takes one.  start(), the consumer, the directory handle and
\* the caller of signalThreads() are bound to nothing.
ReaderSteps ==
  \/ \E ok \in BOOLEAN : ReaderInit(ok)
  \/ ReaderExit
  \/ \E ok \in BOOLEAN : ReaderLoop(ok)
  \/ ReaderWaitSignalled
  \/ ReaderWaitTimeout
  \/ ReaderFailed
  \/ ReaderDecode
  \/ ReaderPush
SpecWinFair == SpecWin /\ WF_vars(ReaderSteps)

\* One call of applyIgnoreVCSConfiguration.
InitVcs == InitTrig({}, {FALSE}) /\ InitWin /\ redir = NoCall /\ vcs \in Applies
NextVcs == ApplyBegin \/ ApplyStep
SpecVcs == InitVcs /\ [][NextVcs]_vars

\* One call of parse_redirection on either build.
InitRedir == InitTrig({}, BOOLEAN) /\ InitWin /\ redir \in Calls /\ vcs = NoApply
NextRedir == CallParseRedirection
SpecRedir == InitRedir /\ [][NextRedir]_vars

\* ============================================================== claims
\* Client c takes the step that leaves position p of its handler.
Leaves(c, p) == cl[c].pc = p /\ cl'[c].pc # p

\* The entry the trigger table has under the name of c's request.
Entry(c) == triggers[cl[c].name]

\* c's new command has the definition of the registered trigger.
SameDefinition(c) ==
  Entry(c) \in Objs /\ obj[cl[c].cmd].definition = obj[Entry(c)].definition

\* c's new command has another definition than the registered trigger.
OtherDefinition(c) ==
  Entry(c) \in Objs /\ obj[cl[c].cmd].definition # obj[Entry(c)].definition

C1_Step ==
  \A c \in DOMAIN cl :
    /\ (Leaves(c, "t_lock") /\ SameDefinition(c)) =>
         /\ cl'[c].disposition = "already_defined"
         /\ cl'[c].pc = "t_finish"
         /\ ~cl'[c].need_save
         /\ obj[Entry(c)].joinable /\ ~obj[Entry(c)].stopTrigger
         /\ triggers' = triggers /\ obj' = obj /\ ticks' = ticks
         /\ triggersLock' = triggersLock
    /\ (Leaves(c, "t_finish") /\ cl[c].disposition = "already_defined") =>
         /\ cl'[c].pc = "done"
         /\ cl'[c].resp = "trigger" /\ cl'[c].disposition = "already_defined"
         /\ cl'[c].did_stop = NoObj /\ cl'[c].did_start = NoObj
         /\ ~cl'[c].did_tick /\ ~cl'[c].did_save
         /\ triggers' = triggers /\ ticks' = ticks
         /\ \A o \in Objs : o # cl[c].cmd => obj'[o] = obj[o]

\* C1: a trigger request whose definition equals the registered one reports
\* "already_defined" and leaves the registered command as it is: the same
\* object in the table, not stopped, its thread untouched, the tick counter
\* unchanged and no save made.
C1_AlreadyDefinedUntouched == [][C1_Step]_vars

C1_Witness ==
  \E c \in DOMAIN cl :
    /\ cl[c].pc = "done" /\ cl[c].disposition = "already_defined"
    /\ cl[c].req.trig.name = "a" /\ triggers["a"] \in Objs

C2_Step ==
  \A c \in DOMAIN cl :
    /\ (Leaves(c, "t_lock") /\ OtherDefinition(c)) =>
         /\ cl'[c].disposition = "replaced"
         /\ cl'[c].old = Entry(c)
         /\ cl'[c].pc = "stop_flag"
    /\ (Leaves(c, "t_start") /\ cl[c].old # NoObj) =>
         /\ cl[c].disposition = "replaced"
         /\ cl[c].did_stop = cl[c].old
         /\ obj[cl[c].old].stopTrigger
         /\ ~obj[cl[c].old].joinable
         /\ obj[cl[c].old].pc = "none"
         /\ obj[cl[c].cmd].pc = "none"
         /\ obj'[cl[c].cmd].pc = "loop"

\* No two commands of one trigger name have their threads running.
C2_NoOverlap ==
  \A o1, o2 \in Objs :
    (o1 # o2 /\ obj[o1].alive /\ obj[o2].alive
       /\ obj[o1].triggername = obj[o2].triggername)
      => ~(Running(o1) /\ Running(o2))

\* C2: a trigger request for a registered name with another definition
\* reports "replaced"; the old thread has been joined when the new thread is
\* started, and the two never run at the same time.
C2_ReplacedAfterJoin == [][C2_Step]_vars /\ []C2_NoOverlap

C2_Witness ==
  \E c \in DOMAIN cl :
    /\ cl[c].pc = "t_start" /\ cl[c].old # NoObj
    /\ cl[c].disposition = "replaced"

C3_Step ==
  \A c \in DOMAIN cl :
    /\ (Leaves(c, "d_lock") /\ Entry(c) = Absent) =>
         /\ cl'[c].pc = "d_finish" /\ ~cl'[c].res
         /\ triggers' = triggers /\ obj' = obj /\ triggersLock' = triggersLock
    /\ (Leaves(c, "d_lock") /\ Entry(c) \in Objs) =>
         /\ cl'[c].pc = "stop_flag" /\ cl'[c].old = Entry(c)
    /\ Leaves(c, "d_erase") =>
         /\ cl[c].did_stop = cl[c].old
         /\ obj[cl[c].old].stopTrigger
         /\ ~obj[cl[c].old].joinable
         /\ obj[cl[c].old].pc = "none"
         /\ triggers' = [triggers EXCEPT ![cl[c].name] = Absent]
         /\ cl'[c].res /\ cl'[c].pc = "d_finish"
    /\ Leaves(c, "d_finish") =>
         /\ cl'[c].pc = "done" /\ cl'[c].resp = "del"
         /\ cl'[c].deleted = cl[c].res
         /\ cl'[c].did_save = cl[c].res
         /\ (cl[c].res <=> cl[c].did_stop # NoObj)
         /\ triggers' = triggers /\ obj' = obj

\* C3: trigger-del of an unknown name reports deleted:false and changes
\* nothing; of a known name it stops the trigger, whose thread has ended and
\* is not joinable when the entry is erased, and reports deleted:true; it
\* saves exactly when it deleted.
C3_DeleteStopsAndSaves == [][C3_Step]_vars

C3_Witness ==
  \E c \in DOMAIN cl :
    /\ cl[c].pc = "done" /\ cl[c].resp = "del"
    /\ cl[c].deleted /\ cl[c].did_save /\ cl[c].did_stop # NoObj

\* C4: no command is destroyed with its thread joinable and its stop flag
\* unset: the destructor never logs FATAL.
C4_NoFatalDestroy == ~fatal

C4_Witness ==
  /\ \E c \in DOMAIN cl : cl[c].pc = "done" /\ cl[c].disposition = "replaced"
  /\ \E c \in DOMAIN cl : cl[c].pc = "done" /\ cl[c].deleted

\* A string that does not begin with '>'.
NoLeadingGt(str) == Len(str) = 0 \/ str[1] # ">"

\* The request has one of the defects for which a definition is rejected.
Defective(req) ==
  \/ req.nargs < 3
  \/ req.form = "legacy"
       /\ (~req.lrule_ok \/ req.lcmd = <<>>
             \/ \E i \in 1 .. Len(req.lcmd) : ~req.lcmd[i].isstr)
  \/ req.form = "object"
       /\ \/ req.trig.expr # "good"
          \/ req.trig.name_t # "str"
          \/ req.trig.cmd_t # "arr" \/ req.trig.cmd = <<>>
          \/ req.trig.stdin_t = "other"
          \/ req.trig.stdin_t = "arr" /\ ~req.trig.stdin_fields_ok
          \/ req.trig.stdin_t = "str"
               /\ req.trig.stdin \notin {"/dev/null", "NAME_PER_LINE"}
          \/ req.trig.max_files_stdin < 0
          \/ req.trig.stdout_t = "str" /\ NoLeadingGt(req.trig.stdout)
          \/ req.trig.stderr_t = "str" /\ NoLeadingGt(req.trig.stderr)

C5_Step ==
  \A c \in DOMAIN cl :
    (Leaves(c, "idle") /\ cl'[c].op = "trigger" /\ Defective(cl'[c].req)) =>
      /\ cl'[c].pc = "done" /\ cl'[c].resp = "error"
      /\ cl'[c].did_start = NoObj /\ cl'[c].did_stop = NoObj
      /\ ~cl'[c].did_tick /\ ~cl'[c].did_save
      /\ triggers' = triggers /\ obj' = obj /\ ticks' = ticks
      /\ triggersLock' = triggersLock /\ fatal' = fatal

\* C5: a trigger request with a defective definition gets an error response
\* and changes nothing: not the table, no command or thread, not the tick
\* counter, and it makes no save and starts no thread.
C5_RejectedChangesNothing == [][C5_Step]_vars

C5_Witness ==
  \E c \in DOMAIN cl :
    /\ cl[c].pc = "done" /\ cl[c].resp = "error"
    /\ cl[c].req.trig.max_files_stdin < 0
    /\ triggers["a"] \in Objs /\ Running(triggers["a"])

C6_Step ==
  /\ ticks' >= ticks
  /\ \A c \in DOMAIN cl :
       /\ (Leaves(c, "t_lock") /\ Entry(c) = Absent) =>
            cl'[c].disposition = "created" /\ cl'[c].pc = "t_start"
       /\ (Leaves(c, "t_lock") /\ OtherDefinition(c)) =>
            cl'[c].disposition = "replaced"
       /\ Leaves(c, "t_start") =>
            /\ cl[c].disposition \in {"created", "replaced"}
            /\ triggers' = [triggers EXCEPT ![cl[c].name] = cl[c].cmd]
            /\ obj'[cl[c].cmd].alive /\ obj'[cl[c].cmd].joinable
            /\ obj'[cl[c].cmd].subscribed /\ obj'[cl[c].cmd].pc = "loop"
            /\ obj'[cl[c].cmd].definition = TrigOf(cl[c].req)
            /\ cl'[c].did_start = cl[c].cmd
            /\ cl'[c].pc = "t_finish"
       /\ (Leaves(c, "t_finish") /\ cl[c].disposition \in {"created", "replaced"}) =>
            /\ cl[c].did_start # NoObj
            /\ ticks' = ticks + 1
            /\ cl'[c].did_tick /\ cl'[c].did_save
            /\ cl'[c].resp = "trigger" /\ cl'[c].pc = "done"
            /\ cl'[c].disposition = cl[c].disposition

\* C6: a trigger request that installs a definition reports "created" for a
\* new name and "replaced" for another definition; the new command is
\* started and stored under its name, the tick counter goes up by exactly
\* one and a save is made.  The tick counter never goes down.
C6_InstallTicksAndSaves == [][C6_Step]_vars

C6_Witness ==
  \E c \in DOMAIN cl :
    /\ cl[c].pc = "done" /\ cl[c].disposition = "created"
    /\ cl[c].did_tick /\ cl[c].did_save /\ ticks >= 1

C7_Step ==
  \A o \in Objs :
    /\ (obj'[o].pc = "spawn" /\ obj[o].pc # "spawn") =>
         /\ obj[o].pc = "get"
         /\ obj[o].sub # <<>> /\ Head(obj[o].sub)
         /\ obj'[o].sub = Tail(obj[o].sub)
         /\ obj'[o].attempts = 0
    /\ obj'[o].attempts > obj[o].attempts =>
         obj[o].pc = "spawn" /\ obj'[o].attempts = 1
    /\ (obj'[o].current_proc # 0 /\ obj[o].current_proc = 0) =>
         obj'[o].attempts > obj[o].attempts

\* C7: the trigger thread calls maybeSpawn only for a batch marked settled
\* that it has just taken from its subscription, and at most once for it.
C7_SpawnOncePerSettledBatch == [][C7_Step]_vars

C7_Witness ==
  \E o \in Objs : obj[o].pc = "wait" /\ obj[o].attempts = 1 /\ obj[o].current_proc # 0

\* ---------------------------------------------------------------- C8
\* C8: start() returns true only if the read thread issued its first
\* directory read: the condition start() waits on is notified only after
\* that read was issued, and start() returns false when the first read
\* failed or no notification came within the timeout.
C8_StartTrueOnlyAfterFirstRead ==
  /\ startWoken => firstRead = "issued"
  /\ startResult = "true" => firstRead = "issued"
  /\ (spc = "returned" /\ firstRead # "issued") => startResult = "false"

\* ---------------------------------------------------------------- C9
\* C9: when GetOverlappedResult fails in the read thread, (1) a parameter
\* error with size above NETWORK_BUF_SIZE sets size to NETWORK_BUF_SIZE and
\* asks for the read again, and size changes in no other way, so that a
\* parameter error at the reduced size cancels the root; (2) an
\* enumeration error schedules a recrawl, and neither cancels the root nor
\* ends the thread; (3) every other error cancels the root and ends the
\* thread.
C9_Step ==
  /\ size' # size => size = InitialSize /\ size' = NETWORK_BUF_SIZE
  /\ (rpc = "result" /\ rpc' # "result" /\ olapResult \notin {"ok", "zero"}) =>
       IF olapResult = "param" /\ size > NETWORK_BUF_SIZE
         THEN /\ size' = NETWORK_BUF_SIZE
              /\ initiate_read'
              /\ rpc' = "loop"
              /\ cancelled' = cancelled
         ELSE IF olapResult = "enumdir"
           THEN /\ recrawl'
                /\ cancelled' = cancelled
                /\ rpc' = "loop"
         ELSE /\ cancelled'
              /\ rpc' = "exit"
C9_CompletionErrors == [][C9_Step]_vars

\* start() returned true, the read was issued again at the reduced size and
\* completed with a parameter error, and the thread has left its loop with
\* the root cancelled.
C9_Witness ==
  /\ startResult = "true"
  /\ size = NETWORK_BUF_SIZE
  /\ olapResult = "param"
  /\ ~initiate_read
  /\ cancelled
  /\ rpc \in {"exit", "done"}

\* ---------------------------------------------------------------- C10
IsPrefix(p, q) == Len(p) <= Len(q) /\ SubSeq(q, 1, Len(p)) = p

\* The paths passed to coll->add followed by those on their way there.
Pipeline == added \o cItems \o changedItems \o items

\* C10: the paths passed to coll->add are, in order, the change records the
\* reads completed with, made full paths, without the ignored ones: at any
\* time a prefix of them, and all of them up to the last completion once
\* the thread has handled it (olapEvent is reset).
C10_DeliveredIsReportedFiltered ==
  /\ IsPrefix(Pipeline, Decode(reported))
  /\ ~olapEvent => Pipeline = Decode(reported)


\* ---------------------------------------------------------------- C11
\* C11: when stop is requested for a trigger whose thread is in waitpid for
\* its child, the thread leaves the wait and ends, and stop() returns,
\* whether or not the child exits.
C11_StopInterruptsWait ==
  \A o \in Objs :
    (obj[o].stopTrigger /\ obj[o].pc = "waitpid") ~> (obj[o].pc # "waitpid")

\* ---------------------------------------------------------------- C12
\* C12: no control handler waits in join() for a trigger thread that is
\* still running while it holds the write lock of the trigger table.
C12_NoJoinUnderLock ==
  \A c \in DOMAIN cl :
    (cl[c].pc = "stop_join" /\ obj[cl[c].old].pc # "exited") => triggersLock # c

\* ---------------------------------------------------------------- C13
StartsWith(str, n) == Len(str) >= n /\ \A i \in 1 .. n : str[i] = ">"

\* C13: parse_redirection.  A name that starts with one '>' gives O_CREAT,
\* O_WRONLY and O_TRUNC without O_APPEND, and the name without its first
\* character; a name that starts with ">>" gives O_CREAT, O_WRONLY and
\* O_APPEND without O_TRUNC, and the name without its first two characters,
\* except on Windows, where it is refused and never given O_TRUNC; a name
\* that does not start with '>' is refused, flags and name left as they
\* were; a null name is accepted and flags left as they were.
C13_ParseRedirection ==
  redir.pc = "returned" =>
    IF ~redir.present
      THEN redir.ok /\ redir.flags = redir.flags0
    ELSE IF ~StartsWith(redir.name0, 1)
      THEN ~redir.ok /\ redir.flags = redir.flags0 /\ redir.name = redir.name0
    ELSE IF ~StartsWith(redir.name0, 2)
      THEN /\ redir.ok
           /\ {"O_CREAT", "O_WRONLY", "O_TRUNC"} \subseteq redir.flags
           /\ "O_APPEND" \notin redir.flags
           /\ redir.name = Tail(redir.name0)
    ELSE IF win32
      THEN ~redir.ok /\ "O_TRUNC" \notin redir.flags
    ELSE /\ redir.ok
         /\ {"O_CREAT", "O_WRONLY", "O_APPEND"} \subseteq redir.flags
         /\ "O_TRUNC" \notin redir.flags
         /\ redir.name = Tail(Tail(redir.name0))

\* ">>o" was parsed on a POSIX build.
C13_Witness ==
  /\ redir.pc = "returned"
  /\ ~win32
  /\ redir.name0 = <<">", ">", "o">>
  /\ redir.name = <<"o">>
  /\ "O_APPEND" \in redir.flags

\* ---------------------------------------------------------------- C14
\* The root-relative paths of the strings of an array, in the array's order.
RECURSIVE PathsOf(_)
PathsOf(elems) ==
  IF elems = <<>> THEN <<>>
  ELSE <<PathCat(RootPath, <<Head(elems).s>>)>> \o PathsOf(Tail(elems))

\* The paths of a sequence that are in a set, in order.
RECURSIVE Keep(_, _)
Keep(paths, set) ==
  IF paths = <<>> THEN <<>>
  ELSE IF Head(paths) \in set THEN <<Head(paths)>> \o Keep(Tail(paths), set)
  ELSE Keep(Tail(paths), set)

Range(f) == {f[k] : k \in DOMAIN f}

\* The VCS paths of the call that were not ignored in full before it.
Wanted ==
  LET names == IF vcs.config.kind = "absent"
                 THEN <<JStr(".git"), JStr(".svn"), JStr(".hg")>>
                 ELSE vcs.config.elems
  IN Keep(PathsOf(names), {q \in Range(PathsOf(names)) : q \notin vcs.dirs0})

C14_Done ==
  vcs.pc = "done" =>
    /\ vcs.adds = Wanted
    /\ vcs.ignore_vcs = Range(Wanted)
    /\ vcs.ignore_dirs = vcs.dirs0
    /\ vcs.cookieDir =
         IF vcs.cookie0 # RootPath THEN vcs.cookie0
         ELSE IF Keep(Wanted, vcs.fs) # <<>> THEN Head(Keep(Wanted, vcs.fs))
         ELSE RootPath

C14_Step ==
  vcs'.cookieDir # vcs.cookieDir =>
    /\ vcs.cookieDir = RootPath
    /\ vcs.cookie0 = RootPath
    /\ vcs'.cookieDir \in vcs.fs

\* C14: applyIgnoreVCSConfiguration.  Without an ignore_vcs configuration
\* the names are .git, .svn, .hg in that order; every root-relative VCS path
\* not ignored in full before is added as a VCS ignore, in order; the cookie
\* directory changes at most once, while it is still the root path, to the
\* first such path that exists as a directory; a cookie directory designated
\* before is kept.
C14_ApplyIgnoreVcs == []C14_Done /\ [][C14_Step]_vars

\* Without configuration, with .git ignored in full before and .svn and .hg
\* both directories: .svn and .hg were added and .svn took the cookies.
C14_Witness ==
  /\ vcs.pc = "done"
  /\ vcs.config.kind = "absent"
  /\ vcs.dirs0 = {<<"r", ".git">>}
  /\ vcs.cookieDir = <<"r", ".svn">>
  /\ <<"r", ".hg">> \in vcs.fs
  /\ vcs.adds = <<<<"r", ".svn">>, <<"r", ".hg">>>>

\* ---------------------------------------------------------------- C20
\* C20: when ignore_vcs is not an array, or is an array with an element that
\* is not a string, applyIgnoreVCSConfiguration throws with the root's ignore
\* set and cookie directory as they were before the call.
C20_InvalidChangesNothing ==
  vcs.pc = "error" =>
    /\ vcs.ignore_vcs = {}
    /\ vcs.ignore_dirs = vcs.dirs0
    /\ vcs.adds = <<>>
    /\ vcs.cookieDir = vcs.cookie0

\* ---------------------------------------------------------------- C15
C15_Step == outstanding' > outstanding => outstanding = 0

\* C15: at most one read is outstanding on the directory handle, and the
\* thread issues a read only when none is.
C15_OneReadOutstanding == [](outstanding <= 1) /\ [][C15_Step]_vars

\* After the retry with the reduced buffer and after a completion whose
\* paths were delivered, the thread waits with one read outstanding.
C15_Witness ==
  /\ rpc = "wait"
  /\ outstanding = 1
  /\ size = NETWORK_BUF_SIZE
  /\ added # <<>>

\* ---------------------------------------------------------------- C16
\* The thread has handled a completion and goes back to the head of its
\* loop.
C16_Handled == rpc \in {"result", "push"} /\ rpc' = "loop"

C16_Step ==
  /\ C16_Handled => initiate_read'
  /\ (rpc' = "wait" /\ ~olapEvent') => outstanding' = 1

\* C16: while the root is not cancelled, the thread asks for the read again
\* after every completion it has handled, that of an enumeration error
\* included, and whenever it is in the wait with no completion signalled
\* one read is outstanding.
C16_ReissuesAfterCompletion == [][C16_Step]_vars

\* ---------------------------------------------------------------- C17
\* C17: once signalThreads() has set ping, the read thread leaves its loop.
C17_SignalEndsThread ==
  (pingEvent /\ rpc \in {"loop", "wait", "result", "push"})
    ~> (rpc \in {"exit", "done"})

\* ---------------------------------------------------------------- C18
\* C18: once stopTrigger_ is set for a trigger, its thread calls maybeSpawn
\* no more.
C18_Step ==
  \A o \in Objs :
    (obj[o].alive /\ obj'[o].alive /\ obj'[o].attempts > obj[o].attempts)
      => ~obj[o].stopTrigger
C18_NoSpawnAfterStop == [][C18_Step]_vars

\* ---------------------------------------------------------------- C19
\* C19: when waitpid fails with EINTR the wait starts again; when it fails
\* with another error, as when it returns the child, the thread goes on to
\* the next batch with current_proc = 0.
C19_Step ==
  \A o \in Objs :
    (obj[o].pc = "waitpid" /\ obj'[o].pc # "waitpid") =>
      \/ obj'[o].pc = "wait" /\ obj'[o].current_proc = obj[o].current_proc
      \/ obj'[o].pc = "get" /\ obj'[o].current_proc = 0
C19_WaitErrorClearsProc == [][C19_Step]_vars

PublishStep == \E settled \in BOOLEAN : Publish(settled)

\* stop() was called on o and its thread is anywhere in run() but inside
\* waitpid.
C22_StopPending(o) ==
  /\ obj[o].stopTrigger
  /\ obj[o].pc \in {"loop", "poll", "chk", "tac", "get", "spawn", "wait"}

C23_SettledQueued(o) ==
  /\ obj[o].alive /\ obj[o].subscribed
  /\ obj[o].sub # <<>> /\ Head(obj[o].sub)
  /\ obj[o].pc # "spawn"

\* C23: no settled batch is lost to a missed wake-up.  A settled batch that
\* is next in the subscription of a started trigger is taken by the thread,
\* which calls maybeSpawn for it, unless the trigger is stopped or the
\* daemon shuts down; the timeout of the event wait is not relied on.
C23_SettledBatchTaken ==
  \A o \in Objs :
    C23_SettledQueued(o) ~>
      \/ obj[o].pc = "spawn" /\ obj[o].attempts = 0
      \/ obj[o].stopTrigger
      \/ stopping

\* The thread holds a settled batch it took after the notifier woke it: the
\* event is consumed, no notifier is due and no attempt was made yet.
C23_Witness ==
  \E o \in Objs :
    /\ obj[o].alive /\ ~obj[o].stopTrigger /\ ~stopping
    /\ obj[o].pc = "spawn" /\ obj[o].attempts = 0
    /\ ~obj[o].ping
    /\ o \notin notify

====
